---------------------------- MODULE Spec2Model ----------------------------
(* PerphixBase.fix_sequences (perphix/data/base.py): reconstruction of the  *)
(* per-axis sequence records of an annotation from its image file names.     *)
(* Python strings are modelled as sequences of one-character strings, so     *)
(* that split and replace are computed character by character.               *)
EXTENDS Integers, Sequences, FiniteSets, TLC

(* ---- the category names of seq_categories, as character sequences ---- *)
s1_left ==
    <<"s", "1", "_", "l", "e", "f", "t">>

s1_right ==
    <<"s", "1", "_", "r", "i", "g", "h", "t">>

s1 ==
    <<"s", "1">>

s2 ==
    <<"s", "2">>

ramus_left ==
    <<"r", "a", "m", "u", "s", "_", "l", "e", "f", "t">>

ramus_right ==
    <<"r", "a", "m", "u", "s", "_", "r", "i", "g", "h", "t">>

teardrop_left ==
    <<"t", "e", "a", "r", "d", "r", "o", "p", "_", "l", "e", "f", "t">>

teardrop_right ==
    <<"t", "e", "a", "r", "d", "r", "o", "p", "_", "r", "i", "g", "h", "t">>

position_wire ==
    <<"p", "o", "s", "i", "t", "i", "o", "n", "_", "w", "i", "r", "e">>

insert_wire ==
    <<"i", "n", "s", "e", "r", "t", "_", "w", "i", "r", "e">>

insert_screw ==
    <<"i", "n", "s", "e", "r", "t", "_", "s", "c", "r", "e", "w">>

ap ==
    <<"a", "p">>

lateral ==
    <<"l", "a", "t", "e", "r", "a", "l">>

inlet ==
    <<"i", "n", "l", "e", "t">>

outlet ==
    <<"o", "u", "t", "l", "e", "t">>

oblique_left ==
    <<"o", "b", "l", "i", "q", "u", "e", "_", "l", "e", "f", "t">>

oblique_right ==
    <<"o", "b", "l", "i", "q", "u", "e", "_", "r", "i", "g", "h", "t">>

fluoro_hunting ==
    <<"f", "l", "u", "o", "r", "o", "_", "h", "u", "n", "t", "i", "n", "g">>

assessment ==
    <<"a", "s", "s", "e", "s", "s", "m", "e", "n", "t">>

(* seq_categories: the registry table, in source order *)
seq_categories ==
    <<[supercategory |-> "task", id |-> 0, name |-> s1_left],
      [supercategory |-> "task", id |-> 1, name |-> s1_right],
      [supercategory |-> "task", id |-> 2, name |-> s1],
      [supercategory |-> "task", id |-> 3, name |-> s2],
      [supercategory |-> "task", id |-> 4, name |-> ramus_left],
      [supercategory |-> "task", id |-> 5, name |-> ramus_right],
      [supercategory |-> "task", id |-> 6, name |-> teardrop_left],
      [supercategory |-> "task", id |-> 7, name |-> teardrop_right],
      [supercategory |-> "activity", id |-> 8, name |-> position_wire],
      [supercategory |-> "activity", id |-> 9, name |-> insert_wire],
      [supercategory |-> "activity", id |-> 10, name |-> insert_screw],
      [supercategory |-> "acquisition", id |-> 11, name |-> ap],
      [supercategory |-> "acquisition", id |-> 12, name |-> lateral],
      [supercategory |-> "acquisition", id |-> 13, name |-> inlet],
      [supercategory |-> "acquisition", id |-> 14, name |-> outlet],
      [supercategory |-> "acquisition", id |-> 15, name |-> oblique_left],
      [supercategory |-> "acquisition", id |-> 16, name |-> oblique_right],
      [supercategory |-> "acquisition", id |-> 17, name |-> teardrop_left],
      [supercategory |-> "acquisition", id |-> 18, name |-> teardrop_right],
      [supercategory |-> "frame", id |-> 19, name |-> fluoro_hunting],
      [supercategory |-> "frame", id |-> 20, name |-> assessment]>>

(* ---- characters and words the inputs are assembled from ---- *)
Dash ==
    <<"-">>

Dot ==
    <<".">>

png ==
    <<"p", "n", "g">>

screw_ ==
    <<"s", "c", "r", "e", "w", "_">>

drill ==
    <<"d", "r", "i", "l", "l">>

(* The four axes, in the order of the enumerate(...) lists of the source.     *)
(* Python indexes them 0..3; the model indexes them 1..4.                     *)
Supercategories ==
    <<"task", "activity", "acquisition", "frame">>

(* ---- bounds of the explored inputs ---- *)
MaxImages ==
    3

(* ---- Python string and list primitives ---- *)

(* position of the first occurrence of the character sep in s, 0 if none *)
Find(s, sep) ==
    IF \E k \in 1..Len(s) : s[k] = sep
    THEN CHOOSE k \in 1..Len(s) : s[k] = sep /\ \A j \in 1..(k - 1) : s[j] # sep
    ELSE 0

RECURSIVE Split(_, _)
(* str.split(sep) for a one-character separator *)
Split(s, sep) ==
    IF Find(s, sep) = 0
    THEN <<s>>
    ELSE <<SubSeq(s, 1, Find(s, sep) - 1)>>
         \o Split(SubSeq(s, Find(s, sep) + 1, Len(s)), sep)

(* the slice l[-4:] *)
LastFour(l) ==
    IF Len(l) <= 4 THEN l ELSE SubSeq(l, Len(l) - 3, Len(l))

StartsWith(s, old) ==
    Len(s) >= Len(old) /\ SubSeq(s, 1, Len(old)) = old

RECURSIVE Replace(_, _, _)
(* str.replace(old, new): every non-overlapping occurrence, left to right *)
Replace(s, old, new) ==
    IF Len(s) < Len(old)
    THEN s
    ELSE IF StartsWith(s, old)
         THEN new \o Replace(SubSeq(s, Len(old) + 1, Len(s)), old, new)
         ELSE <<s[1]>> \o Replace(Tail(s), old, new)

(* line 410: image["file_name"].split(".")[0].split("-")[-4:] *)
ParseSeqCategoryNames(file_name) ==
    LastFour(Split(Split(file_name, ".")[1], "-"))

(* lines 421 and 438: prev_seq_category_names[i].replace("screw_", "") *)
Normalize(name) ==
    Replace(name, screw_, <<>>)

(* ---- the registry ---- *)

(* _seq_category_names: the keys of the dict built on line 351 *)
Registered(supercategory, name) ==
    \E k \in 1..Len(seq_categories) :
        /\ seq_categories[k].supercategory = supercategory
        /\ seq_categories[k].name = name

(* the dict keeps the last entry of the table for a repeated key *)
SeqCategoryEntry(supercategory, name) ==
    LET hits == {k \in 1..Len(seq_categories) :
                    /\ seq_categories[k].supercategory = supercategory
                    /\ seq_categories[k].name = name}
    IN seq_categories[CHOOSE k \in hits : \A j \in hits : j <= k]

(* a lookup that answers -1 for a pair that is not a key, as dict.get would *)
get_sequence_catid_Default(supercategory, name) ==
    IF Registered(supercategory, name)
    THEN [exc |-> "none", value |-> SeqCategoryEntry(supercategory, name).id]
    ELSE [exc |-> "none", value |-> -1]

(* a lookup keyed by the name alone: the first table entry with that name *)
get_sequence_catid_ByName(supercategory, name) ==
    LET hits == {k \in 1..Len(seq_categories) : seq_categories[k].name = name}
    IN IF hits = {}
       THEN [exc |-> "KeyError", value |-> -1]
       ELSE [exc |-> "none",
             value |-> seq_categories[CHOOSE k \in hits : \A j \in hits : k <= j].id]

(* get_sequence_catid: the id, or a KeyError when the pair is not a key *)
get_sequence_catid(supercategory, name) ==
    IF Registered(supercategory, name)
    THEN [exc |-> "none", value |-> SeqCategoryEntry(supercategory, name).id]
    ELSE [exc |-> "KeyError", value |-> -1]

(* get_sequence_category: the table entry of an id (ids outside raise) *)
get_sequence_category(catid) ==
    LET hits == {k \in 1..Len(seq_categories) : seq_categories[k].id = catid}
    IN seq_categories[CHOOSE k \in hits : \A j \in hits : j <= k]

(* ---- the inputs ---- *)

FileName(prefix, task, activity, acquisition, frame) ==
    prefix \o Dash \o task \o Dash \o activity \o Dash \o acquisition
           \o Dash \o frame \o Dot \o png

(* c-s1-position_wire-ap-fluoro_hunting.png *)
F_plain ==
    FileName(<<"c">>, s1, position_wire, ap, fluoro_hunting)

(* c-s1-insert_wire-ap-fluoro_hunting.png: the activity changes *)
F_wire ==
    FileName(<<"c">>, s1, insert_wire, ap, fluoro_hunting)

(* c-s1-screw_insert_screw-lateral-assessment.png: a prefixed activity *)
F_screw ==
    FileName(<<"c">>, s1, screw_ \o insert_screw, lateral, assessment)

(* c-s1-insert_screw-lateral-assessment.png: the same without the prefix *)
F_noprefix ==
    FileName(<<"c">>, s1, insert_screw, lateral, assessment)

(* teardrop_left-position_wire-teardrop_left-assessment.png: a stem of    *)
(* exactly four tokens, with a name registered under two axes             *)
F_teardrop ==
    teardrop_left \o Dash \o position_wire \o Dash \o teardrop_left
                  \o Dash \o assessment \o Dot \o png

(* c-s1-drill-ap-fluoro_hunting.png: an activity that is not registered *)
F_unknown ==
    FileName(<<"c">>, s1, drill, ap, fluoro_hunting)

(* c-s1screw_-position_wire-ap-fluoro_hunting.png: "screw_" inside a token *)
F_inner ==
    FileName(<<"c">>, s1 \o screw_, position_wire, ap, fluoro_hunting)

(* a.b-s1-position_wire-ap-fluoro_hunting.png: two dots in the file name *)
F_dots ==
    FileName(<<"a", ".", "b">>, s1, position_wire, ap, fluoro_hunting)

FileNames ==
    {F_plain, F_wire, F_screw, F_noprefix, F_teardrop, F_unknown, F_inner, F_dots}

IdSchemes ==
    {"ascending", "descending"}

(* image ids are distinct; they need be neither contiguous nor increasing *)
ImageId(scheme, k) ==
    IF scheme = "ascending" THEN k ELSE 40 - 3 * k

(* a sequence record left in the annotation by an earlier, improper store *)
StaleSequence ==
    [id |-> 5, first_frame_id |-> 99, seq_length |-> 7, seq_category_id |-> 20]

PriorSequences ==
    {<<>>, <<StaleSequence>>}

ImageLists ==
    UNION {[1..n -> FileNames] : n \in 0..MaxImages}

(* an annotation dictionary with the keys get_base_annotation lays out; the   *)
(* keys fix_sequences never reads hold short stand-ins                        *)
Annotation(files, scheme, prior) ==
    [info |-> "info",
     licenses |-> <<"license1", "license2", "license3">>,
     images |-> [k \in 1..Len(files) |->
                    [id |-> ImageId(scheme, k), file_name |-> files[k]]],
     annotations |-> <<[id |-> 1, image_id |-> ImageId(scheme, 1), category_id |-> 1]>>,
     categories |-> <<[id |-> 1, name |-> "pelvis"]>>,
     sequences |-> prior,
     seq_categories |-> SubSeq(seq_categories, 1, 2)]

Inputs ==
    {Annotation(files, scheme, prior) :
        files \in ImageLists, scheme \in IdSchemes, prior \in PriorSequences}

(* ---- the state ---- *)

VARIABLES
    heap,                     \* the annotation dictionaries, by reference (1 is the caller's)
    arg,                      \* the reference passed as `annotation` to the current call
    annotation,               \* the local name `annotation` after line 403 (0: not bound)
    sequences,                \* the local list `sequences`
    prev_seq_category_names,  \* None, or the tokens of the preceding image
    seq_category_names,       \* the tokens parsed from the current image
    first_frame_ids,          \* per axis, the id of the image that opened the run
    seq_lengths,              \* per axis, the length of the open run
    idx,                      \* number of images the for loop has consumed
    pc,                       \* "idle", "loop", "assign", "returned", "raised"
    error,                    \* the exception that ended the call, or "none"
    lookups,                  \* the calls of get_sequence_catid made by this call, in order
    returned,                 \* the outcomes of the completed calls, in order
    again                     \* TRUE once the second call has been made

(* the state of a call of deidentify_dataset (perphix/deidentify.py) *)
VARIABLES
    datasets,                 \* the DICOM datasets, by reference (1 is the caller's)
    ds,                       \* the local name `ds`: the argument, then the copy (0: not bound)
    case_id,                  \* the argument case_id
    removed,                  \* number of remove_tag calls made so far
    dpc                       \* "idle", "removing", "returned"

(* the variables of fix_sequences *)
fvars ==
    <<heap, arg, annotation, sequences, prev_seq_category_names, seq_category_names,
      first_frame_ids, seq_lengths, idx, pc, error, lookups, returned, again>>

(* the variables of deidentify_dataset *)
dvars ==
    <<datasets, ds, case_id, removed, dpc>>

vars ==
    <<fvars, dvars>>

(* Python's None for prev_seq_category_names; split never yields an empty list *)
None ==
    <<>>

(* ---- the steps of fix_sequences ---- *)

(* no copy at all: the local name is bound to the caller's dictionary *)
deepcopy_Alias(h, r) ==
    [ref |-> r, heap |-> h]

(* a new dictionary rebuilt from the images only, its annotations left empty *)
deepcopy_Partial(h, r) ==
    [ref |-> Len(h) + 1, heap |-> Append(h, [h[r] EXCEPT !.annotations = <<>>])]

(* line 403, copy.deepcopy: a new dictionary, equal in value, sharing nothing *)
deepcopy(h, r) ==
    [ref |-> Len(h) + 1, heap |-> Append(h, h[r])]

(* ids counted from 1 instead of len(sequences) *)
NewSeq_OneBased(seqs, first_frame_id, seq_length, catid) ==
    [id |-> Len(seqs) + 1,
     first_frame_id |-> first_frame_id,
     seq_length |-> seq_length,
     seq_category_id |-> catid]

(* lines 422-427 and 439-444: the record of a closed run; ids are len(sequences) *)
NewSeq(seqs, first_frame_id, seq_length, catid) ==
    [id |-> Len(seqs),
     first_frame_id |-> first_frame_id,
     seq_length |-> seq_length,
     seq_category_id |-> catid]

(* the locals the loop bodies read and write, as one record *)
Locals ==
    [sequences |-> sequences,
     prev_seq_category_names |-> prev_seq_category_names,
     first_frame_ids |-> first_frame_ids,
     seq_lengths |-> seq_lengths,
     lookups |-> lookups,
     error |-> error]

(* lines 421-429 (and 438-446): normalize the closing token, look its id up, *)
(* append the record; a failed lookup raises before anything is appended     *)
CloseRun(L, i) ==
    LET name == Normalize(L.prev_seq_category_names[i])
        res == get_sequence_catid(Supercategories[i], name)
        L1 == [L EXCEPT !.lookups = Append(@, [supercategory |-> Supercategories[i],
                                                 token |-> L.prev_seq_category_names[i],
                                                 name |-> name])]
    IN IF res.exc # "none"
       THEN [L1 EXCEPT !.error = res.exc]
       ELSE [L1 EXCEPT !.sequences =
                Append(@, NewSeq(L.sequences, L.first_frame_ids[i], L.seq_lengths[i], res.value))]

(* line 430 left out: a new run keeps the first frame of the closed one *)
AxisStep_KeepFirstFrame(L, i, image_id, names) ==
    IF L.error # "none"
    THEN L
    ELSE IF i > Len(names) \/ i > Len(L.prev_seq_category_names)
    THEN [L EXCEPT !.error = "IndexError"]
    ELSE IF names[i] # L.prev_seq_category_names[i]
    THEN LET L1 == CloseRun(L, i)
         IN IF L1.error # "none"
            THEN L1
            ELSE [L1 EXCEPT !.seq_lengths[i] = 0 + 1,
                            !.prev_seq_category_names[i] = names[i]]
    ELSE [L EXCEPT !.seq_lengths[i] = @ + 1,
                   !.prev_seq_category_names[i] = names[i]]

(* line 433 moved into an else branch: the image that opens a run is not counted *)
AxisStep_NoCount(L, i, image_id, names) ==
    IF L.error # "none"
    THEN L
    ELSE IF i > Len(names) \/ i > Len(L.prev_seq_category_names)
    THEN [L EXCEPT !.error = "IndexError"]
    ELSE IF names[i] # L.prev_seq_category_names[i]
    THEN LET L1 == CloseRun(L, i)
         IN IF L1.error # "none"
            THEN L1
            ELSE [L1 EXCEPT !.first_frame_ids[i] = image_id,
                            !.seq_lengths[i] = 0,
                            !.prev_seq_category_names[i] = names[i]]
    ELSE [L EXCEPT !.seq_lengths[i] = @ + 1,
                   !.prev_seq_category_names[i] = names[i]]

(* line 420 comparing the whole token lists: any change closes the axis *)
AxisStep_AnyChange(L, i, image_id, names) ==
    IF L.error # "none"
    THEN L
    ELSE IF i > Len(names) \/ i > Len(L.prev_seq_category_names)
    THEN [L EXCEPT !.error = "IndexError"]
    ELSE IF names # L.prev_seq_category_names
    THEN LET L1 == CloseRun(L, i)
         IN IF L1.error # "none"
            THEN L1
            ELSE [L1 EXCEPT !.first_frame_ids[i] = image_id,
                            !.seq_lengths[i] = 0 + 1,
                            !.prev_seq_category_names[i] = names[i]]
    ELSE [L EXCEPT !.seq_lengths[i] = @ + 1,
                   !.prev_seq_category_names[i] = names[i]]

(* line 420 comparing the normalized tokens: a "screw_" prefix is no boundary *)
AxisStep_NormalizedCompare(L, i, image_id, names) ==
    IF L.error # "none"
    THEN L
    ELSE IF i > Len(names) \/ i > Len(L.prev_seq_category_names)
    THEN [L EXCEPT !.error = "IndexError"]
    ELSE IF Normalize(names[i]) # Normalize(L.prev_seq_category_names[i])
    THEN LET L1 == CloseRun(L, i)
         IN IF L1.error # "none"
            THEN L1
            ELSE [L1 EXCEPT !.first_frame_ids[i] = image_id,
                            !.seq_lengths[i] = 0 + 1,
                            !.prev_seq_category_names[i] = names[i]]
    ELSE [L EXCEPT !.seq_lengths[i] = @ + 1,
                   !.prev_seq_category_names[i] = names[i]]

(* lines 420-434: the body of the inner loop for axis i *)
AxisStep(L, i, image_id, names) ==
    IF L.error # "none"
    THEN L
    ELSE IF i > Len(names) \/ i > Len(L.prev_seq_category_names)
    THEN [L EXCEPT !.error = "IndexError"]
    ELSE IF names[i] # L.prev_seq_category_names[i]
    THEN LET L1 == CloseRun(L, i)
         IN IF L1.error # "none"
            THEN L1
            ELSE [L1 EXCEPT !.first_frame_ids[i] = image_id,
                            !.seq_lengths[i] = 0 + 1,
                            !.prev_seq_category_names[i] = names[i]]
    ELSE [L EXCEPT !.seq_lengths[i] = @ + 1,
                   !.prev_seq_category_names[i] = names[i]]

(* the inner loop visiting the axes from frame back to task *)
InnerLoop_Reversed(L, image_id, names) ==
    AxisStep(AxisStep(AxisStep(AxisStep(L, 4, image_id, names),
                               3, image_id, names),
                      2, image_id, names),
             1, image_id, names)

(* lines 419-434: the inner loop over the four axes, in order *)
InnerLoop(L, image_id, names) ==
    AxisStep(AxisStep(AxisStep(AxisStep(L, 1, image_id, names),
                               2, image_id, names),
                      3, image_id, names),
             4, image_id, names)

(* the final loop guarded by a test for None: nothing is closed when no run *)
(* was ever opened                                                         *)
FlushAxis_SkipNone(L, i) ==
    IF L.error # "none"
    THEN L
    ELSE IF L.prev_seq_category_names = None
    THEN L
    ELSE IF i > Len(L.prev_seq_category_names)
    THEN [L EXCEPT !.error = "IndexError"]
    ELSE CloseRun(L, i)

(* lines 438-446: the body of the final loop for axis i *)
FlushAxis(L, i) ==
    IF L.error # "none"
    THEN L
    ELSE IF L.prev_seq_category_names = None
    THEN [L EXCEPT !.error = "TypeError"]
    ELSE IF i > Len(L.prev_seq_category_names)
    THEN [L EXCEPT !.error = "IndexError"]
    ELSE CloseRun(L, i)

(* the final loop stopping one axis short: the frame run is never closed *)
FlushLoop_NoFrame(L) ==
    FlushAxis(FlushAxis(FlushAxis(L, 1), 2), 3)

(* lines 437-446: the final loop over the four axes, in order *)
FlushLoop(L) ==
    FlushAxis(FlushAxis(FlushAxis(FlushAxis(L, 1), 2), 3), 4)

(* the new records appended to the stored list instead of replacing it *)
SetSequences_Extend(ann, seqs) ==
    [ann EXCEPT !.sequences = @ \o seqs]

(* line 448: annotation["sequences"] = sequences *)
SetSequences(ann, seqs) ==
    [ann EXCEPT !.sequences = seqs]

(* the outcome of a call that raised *)
Raised(exc) ==
    [input |-> heap[arg], exc |-> exc, output |-> <<>>]

Init ==
    /\ heap \in {<<a>> : a \in Inputs}
    /\ arg = 1
    /\ annotation = 0
    /\ sequences = <<>>
    /\ prev_seq_category_names = None
    /\ seq_category_names = <<>>
    /\ first_frame_ids = <<>>
    /\ seq_lengths = <<0, 0, 0, 0>>
    /\ idx = 0
    /\ pc = "idle"
    /\ error = "none"
    /\ lookups = <<>>
    /\ returned = <<>>
    /\ again = FALSE
    /\ datasets = <<>>
    /\ ds = 0
    /\ case_id = <<>>
    /\ removed = 0
    /\ dpc = "idle"

(* lines 403-407: fix_sequences is entered with the dictionary r *)
Enter(r) ==
    /\ arg' = r
    /\ heap' = deepcopy(heap, r).heap
    /\ annotation' = deepcopy(heap, r).ref
    /\ sequences' = <<>>
    /\ prev_seq_category_names' = None
    /\ seq_category_names' = <<>>
    /\ first_frame_ids' = <<>>
    /\ seq_lengths' = <<0, 0, 0, 0>>
    /\ idx' = 0
    /\ pc' = "loop"
    /\ error' = "none"
    /\ lookups' = <<>>
    /\ UNCHANGED returned
    /\ UNCHANGED dvars

(* the caller calls fix_sequences on its annotation *)
Call ==
    /\ pc = "idle"
    /\ Enter(1)
    /\ UNCHANGED again

(* the caller calls once more: on the same dictionary, or on the one returned *)
CallAgain ==
    /\ pc \in {"returned", "raised"}
    /\ ~again
    /\ again' = TRUE
    /\ \E r \in {arg} \cup (IF pc = "returned" THEN {annotation} ELSE {}) : Enter(r)

(* lines 408-416: the first image opens the four runs *)
FirstImage ==
    /\ pc = "loop"
    /\ idx < Len(heap[annotation].images)
    /\ prev_seq_category_names = None
    /\ LET image == heap[annotation].images[idx + 1]
           names == ParseSeqCategoryNames(image.file_name)
       IN /\ seq_category_names' = names
          /\ prev_seq_category_names' = names
          /\ first_frame_ids' = <<image.id, image.id, image.id, image.id>>
          /\ seq_lengths' = <<1, 1, 1, 1>>
    /\ idx' = idx + 1
    /\ UNCHANGED <<heap, arg, annotation, sequences, pc, error, lookups, returned, again>>
    /\ UNCHANGED dvars

(* lines 408-434: a later image closes the runs whose token changed *)
NextImage ==
    /\ pc = "loop"
    /\ idx < Len(heap[annotation].images)
    /\ prev_seq_category_names # None
    /\ LET image == heap[annotation].images[idx + 1]
           names == ParseSeqCategoryNames(image.file_name)
           L == InnerLoop(Locals, image.id, names)
       IN /\ seq_category_names' = names
          /\ sequences' = L.sequences
          /\ prev_seq_category_names' = L.prev_seq_category_names
          /\ first_frame_ids' = L.first_frame_ids
          /\ seq_lengths' = L.seq_lengths
          /\ lookups' = L.lookups
          /\ error' = L.error
          /\ pc' = IF L.error = "none" THEN "loop" ELSE "raised"
          /\ returned' = IF L.error = "none" THEN returned
                         ELSE Append(returned, Raised(L.error))
    /\ idx' = idx + 1
    /\ UNCHANGED <<heap, arg, annotation, again>>
    /\ UNCHANGED dvars

(* lines 436-446: after the last image the four open runs are closed *)
Flush ==
    /\ pc = "loop"
    /\ idx = Len(heap[annotation].images)
    /\ LET L == FlushLoop(Locals)
       IN /\ sequences' = L.sequences
          /\ lookups' = L.lookups
          /\ error' = L.error
          /\ pc' = IF L.error = "none" THEN "assign" ELSE "raised"
          /\ returned' = IF L.error = "none" THEN returned
                         ELSE Append(returned, Raised(L.error))
    /\ UNCHANGED <<heap, arg, annotation, prev_seq_category_names, seq_category_names,
                   first_frame_ids, seq_lengths, idx, again>>
    /\ UNCHANGED dvars

(* lines 448-449: the copy gets the new list and is returned *)
Return ==
    /\ pc = "assign"
    /\ heap' = [heap EXCEPT ![annotation] = SetSequences(@, sequences)]
    /\ pc' = "returned"
    /\ returned' = Append(returned,
                          [input |-> heap'[arg], exc |-> "none",
                           output |-> <<heap'[annotation]>>])
    /\ UNCHANGED <<arg, annotation, sequences, prev_seq_category_names, seq_category_names,
                   first_frame_ids, seq_lengths, idx, error, lookups, again>>
    /\ UNCHANGED dvars

Next ==
    \/ Call
    \/ CallAgain
    \/ FirstImage
    \/ NextImage
    \/ Flush
    \/ Return

Spec ==
    Init /\ [][Next]_vars


(* ---------------------------------------------------------------------- *)
(* deidentify_dataset (perphix/deidentify.py)                               *)
(* A dataset is a function from the tags it holds to their values; a value   *)
(* is a string, modelled as a sequence of one-character strings.             *)
(* ---------------------------------------------------------------------- *)

(* lines 63-98: the remove_tag calls of deidentify_dataset, in order *)
RemovedTags ==
    <<
      [tag |-> 524308, with_case_id |-> FALSE],  \* 0x00080014 Instance creator UID
      [tag |-> 524312, with_case_id |-> FALSE],  \* 0x00080018 SOP Instance UID
      [tag |-> 524368, with_case_id |-> FALSE],  \* 0x00080050 Accession Number
      [tag |-> 524417, with_case_id |-> FALSE],  \* 0x00080081 Institution Address
      [tag |-> 524432, with_case_id |-> FALSE],  \* 0x00080090 Referring Physician's Name
      [tag |-> 524434, with_case_id |-> FALSE],  \* 0x00080092 Referring Physician's Address
      [tag |-> 524436, with_case_id |-> FALSE],  \* 0x00080094 Referring Physician's Telephone Numbers
      [tag |-> 528432, with_case_id |-> FALSE],  \* 0x00081030 Study Description
      [tag |-> 528446, with_case_id |-> FALSE],  \* 0x0008103E Series Description
      [tag |-> 528456, with_case_id |-> FALSE],  \* 0x00081048 Physician(s) of Record
      [tag |-> 528464, with_case_id |-> FALSE],  \* 0x00081050 Performing Physician's Name
      [tag |-> 528480, with_case_id |-> FALSE],  \* 0x00081060 Name of Physician(s) Reading Study
      [tag |-> 528496, with_case_id |-> FALSE],  \* 0x00081070 Operator's Name
      [tag |-> 528512, with_case_id |-> FALSE],  \* 0x00081080 Admitting Diagnoses Description
      [tag |-> 528725, with_case_id |-> FALSE],  \* 0x00081155 Referenced SOP Instance UID
      [tag |-> 532753, with_case_id |-> FALSE],  \* 0x00082111 Derivation Description
      [tag |-> 1048592, with_case_id |-> TRUE],  \* 0x00100010 Patient's Name
      [tag |-> 1048608, with_case_id |-> TRUE],  \* 0x00100020 Patient ID
      [tag |-> 1048624, with_case_id |-> FALSE],  \* 0x00100030 Patient's Birth Date
      [tag |-> 1048626, with_case_id |-> FALSE],  \* 0x00100032 Patient's Birth Time
      [tag |-> 1052672, with_case_id |-> FALSE],  \* 0x00101000 Other Patient IDs
      [tag |-> 1052673, with_case_id |-> FALSE],  \* 0x00101001 Other Patient Names
      [tag |-> 1052688, with_case_id |-> FALSE],  \* 0x00101010 Patient's Age
      [tag |-> 1052704, with_case_id |-> FALSE],  \* 0x00101020 Patient's Size
      [tag |-> 1052720, with_case_id |-> FALSE],  \* 0x00101030 Patient's Weight
      [tag |-> 1052816, with_case_id |-> FALSE],  \* 0x00101090 Medical Record Locator
      [tag |-> 1057120, with_case_id |-> FALSE],  \* 0x00102160 Ethnic Group
      [tag |-> 1057152, with_case_id |-> FALSE],  \* 0x00102180 Occupation
      [tag |-> 1057200, with_case_id |-> FALSE],  \* 0x001021B0 Additional Patient History
      [tag |-> 1064960, with_case_id |-> FALSE],  \* 0x00104000 Patient Comments
      [tag |-> 2097165, with_case_id |-> FALSE],  \* 0x0020000D Study Instance UID
      [tag |-> 2097166, with_case_id |-> FALSE],  \* 0x0020000E Series Instance UID
      [tag |-> 2097168, with_case_id |-> FALSE],  \* 0x00200010 Study ID
      [tag |-> 2097234, with_case_id |-> FALSE],  \* 0x00200052 Frame of Reference UID
      [tag |-> 2097664, with_case_id |-> FALSE],  \* 0x00200200 Synchronization Frame of Reference UID
      [tag |-> 2113536, with_case_id |-> FALSE]>>  \* 0x00204000 Image Comments

(* tags the explored datasets may hold: five of the removal list, among them *)
(* its last one, and two outside it (Modality, Rows)                         *)
PatientName ==
    1048592

PatientID ==
    1048608

PatientBirthDate ==
    1048624

StudyDescription ==
    528432

ImageComments ==
    2113536

(* 0x00101010 Patient's Age, the tag remove_age rewrites *)
PatientAge ==
    1052688

(* 0x00080060 Modality and 0x00280010 Rows: tags no remove_tag call names *)
OtherTags ==
    {524384, 2621456}

InputTags ==
    {PatientName, PatientID, PatientBirthDate, StudyDescription, ImageComments}
        \cup OtherTags

(* the value each tag holds in the explored datasets *)
OriginalValue(tag) ==
    CASE tag = PatientName -> <<"D", "o", "e", "^", "J", "o", "h", "n">>
      [] tag = PatientID -> <<"M", "R", "N", "-", "1", "7">>
      [] tag = PatientBirthDate -> <<"1", "9", "5", "0", "0", "1", "0", "1">>
      [] tag = StudyDescription -> <<"P", "e", "l", "v", "i", "s">>
      [] tag = ImageComments -> <<"l", "e", "f", "t">>
      [] OTHER -> <<"X", "A">>

(* the string "None", which remove_age leaves alone *)
NoneWord ==
    <<"N", "o", "n", "e">>

(* the marker remove_age writes for an age of 90 or more: the character       *)
(* U+2265 (greater-than or equal to), written here by its code point,        *)
(* followed by "90"                                                          *)
Over90 ==
    <<"U+2265", "9", "0">>

(* the ages the explored datasets may hold: 93, 90, 89, " 91", 093Y, None,    *)
(* 93 after a form feed, 93 in fullwidth digits, 89 with an Arabic-Indic 9   *)
AgeValues ==
    {<<"9", "3">>, <<"9", "0">>, <<"8", "9">>, <<" ", "9", "1">>, <<"0", "9", "3", "Y">>, NoneWord,
     <<"\f", "9", "3">>, <<"U+FF19", "U+FF13">>, <<"8", "U+0669">>}

(* datasets without Patient's Age, and the same with each of the ages *)
InputDatasets ==
    {[t \in present |-> OriginalValue(t)] : present \in SUBSET InputTags}
    \cup {[t \in present \cup {PatientAge} |->
                IF t = PatientAge THEN age ELSE OriginalValue(t)] :
            present \in SUBSET InputTags, age \in AgeValues}

CaseIds ==
    {<<>>, <<"0", "0", "0", "0", "4", "2">>}

(* ---- Python's int(str) ---- *)
(* A character outside printable ASCII is written by its code point,         *)
(* "U+" and its hexadecimal digits, except "\t", "\n", "\f" and "\r".         *)

(* the decimal digits int() reads (Unicode category Nd): one row per script, *)
(* the k-th character of a row has the value k - 1                           *)
Digits ==
    << <<"0", "1", "2", "3", "4", "5", "6", "7", "8", "9">>,
       <<"U+0660", "U+0661", "U+0662", "U+0663", "U+0664", "U+0665", "U+0666", "U+0667", "U+0668", "U+0669">>,
       <<"U+06F0", "U+06F1", "U+06F2", "U+06F3", "U+06F4", "U+06F5", "U+06F6", "U+06F7", "U+06F8", "U+06F9">>,
       <<"U+07C0", "U+07C1", "U+07C2", "U+07C3", "U+07C4", "U+07C5", "U+07C6", "U+07C7", "U+07C8", "U+07C9">>,
       <<"U+0966", "U+0967", "U+0968", "U+0969", "U+096A", "U+096B", "U+096C", "U+096D", "U+096E", "U+096F">>,
       <<"U+09E6", "U+09E7", "U+09E8", "U+09E9", "U+09EA", "U+09EB", "U+09EC", "U+09ED", "U+09EE", "U+09EF">>,
       <<"U+0A66", "U+0A67", "U+0A68", "U+0A69", "U+0A6A", "U+0A6B", "U+0A6C", "U+0A6D", "U+0A6E", "U+0A6F">>,
       <<"U+0AE6", "U+0AE7", "U+0AE8", "U+0AE9", "U+0AEA", "U+0AEB", "U+0AEC", "U+0AED", "U+0AEE", "U+0AEF">>,
       <<"U+0B66", "U+0B67", "U+0B68", "U+0B69", "U+0B6A", "U+0B6B", "U+0B6C", "U+0B6D", "U+0B6E", "U+0B6F">>,
       <<"U+0BE6", "U+0BE7", "U+0BE8", "U+0BE9", "U+0BEA", "U+0BEB", "U+0BEC", "U+0BED", "U+0BEE", "U+0BEF">>,
       <<"U+0C66", "U+0C67", "U+0C68", "U+0C69", "U+0C6A", "U+0C6B", "U+0C6C", "U+0C6D", "U+0C6E", "U+0C6F">>,
       <<"U+0CE6", "U+0CE7", "U+0CE8", "U+0CE9", "U+0CEA", "U+0CEB", "U+0CEC", "U+0CED", "U+0CEE", "U+0CEF">>,
       <<"U+0D66", "U+0D67", "U+0D68", "U+0D69", "U+0D6A", "U+0D6B", "U+0D6C", "U+0D6D", "U+0D6E", "U+0D6F">>,
       <<"U+0DE6", "U+0DE7", "U+0DE8", "U+0DE9", "U+0DEA", "U+0DEB", "U+0DEC", "U+0DED", "U+0DEE", "U+0DEF">>,
       <<"U+0E50", "U+0E51", "U+0E52", "U+0E53", "U+0E54", "U+0E55", "U+0E56", "U+0E57", "U+0E58", "U+0E59">>,
       <<"U+0ED0", "U+0ED1", "U+0ED2", "U+0ED3", "U+0ED4", "U+0ED5", "U+0ED6", "U+0ED7", "U+0ED8", "U+0ED9">>,
       <<"U+0F20", "U+0F21", "U+0F22", "U+0F23", "U+0F24", "U+0F25", "U+0F26", "U+0F27", "U+0F28", "U+0F29">>,
       <<"U+1040", "U+1041", "U+1042", "U+1043", "U+1044", "U+1045", "U+1046", "U+1047", "U+1048", "U+1049">>,
       <<"U+1090", "U+1091", "U+1092", "U+1093", "U+1094", "U+1095", "U+1096", "U+1097", "U+1098", "U+1099">>,
       <<"U+17E0", "U+17E1", "U+17E2", "U+17E3", "U+17E4", "U+17E5", "U+17E6", "U+17E7", "U+17E8", "U+17E9">>,
       <<"U+1810", "U+1811", "U+1812", "U+1813", "U+1814", "U+1815", "U+1816", "U+1817", "U+1818", "U+1819">>,
       <<"U+1946", "U+1947", "U+1948", "U+1949", "U+194A", "U+194B", "U+194C", "U+194D", "U+194E", "U+194F">>,
       <<"U+19D0", "U+19D1", "U+19D2", "U+19D3", "U+19D4", "U+19D5", "U+19D6", "U+19D7", "U+19D8", "U+19D9">>,
       <<"U+1A80", "U+1A81", "U+1A82", "U+1A83", "U+1A84", "U+1A85", "U+1A86", "U+1A87", "U+1A88", "U+1A89">>,
       <<"U+1A90", "U+1A91", "U+1A92", "U+1A93", "U+1A94", "U+1A95", "U+1A96", "U+1A97", "U+1A98", "U+1A99">>,
       <<"U+1B50", "U+1B51", "U+1B52", "U+1B53", "U+1B54", "U+1B55", "U+1B56", "U+1B57", "U+1B58", "U+1B59">>,
       <<"U+1BB0", "U+1BB1", "U+1BB2", "U+1BB3", "U+1BB4", "U+1BB5", "U+1BB6", "U+1BB7", "U+1BB8", "U+1BB9">>,
       <<"U+1C40", "U+1C41", "U+1C42", "U+1C43", "U+1C44", "U+1C45", "U+1C46", "U+1C47", "U+1C48", "U+1C49">>,
       <<"U+1C50", "U+1C51", "U+1C52", "U+1C53", "U+1C54", "U+1C55", "U+1C56", "U+1C57", "U+1C58", "U+1C59">>,
       <<"U+A620", "U+A621", "U+A622", "U+A623", "U+A624", "U+A625", "U+A626", "U+A627", "U+A628", "U+A629">>,
       <<"U+A8D0", "U+A8D1", "U+A8D2", "U+A8D3", "U+A8D4", "U+A8D5", "U+A8D6", "U+A8D7", "U+A8D8", "U+A8D9">>,
       <<"U+A900", "U+A901", "U+A902", "U+A903", "U+A904", "U+A905", "U+A906", "U+A907", "U+A908", "U+A909">>,
       <<"U+A9D0", "U+A9D1", "U+A9D2", "U+A9D3", "U+A9D4", "U+A9D5", "U+A9D6", "U+A9D7", "U+A9D8", "U+A9D9">>,
       <<"U+A9F0", "U+A9F1", "U+A9F2", "U+A9F3", "U+A9F4", "U+A9F5", "U+A9F6", "U+A9F7", "U+A9F8", "U+A9F9">>,
       <<"U+AA50", "U+AA51", "U+AA52", "U+AA53", "U+AA54", "U+AA55", "U+AA56", "U+AA57", "U+AA58", "U+AA59">>,
       <<"U+ABF0", "U+ABF1", "U+ABF2", "U+ABF3", "U+ABF4", "U+ABF5", "U+ABF6", "U+ABF7", "U+ABF8", "U+ABF9">>,
       <<"U+FF10", "U+FF11", "U+FF12", "U+FF13", "U+FF14", "U+FF15", "U+FF16", "U+FF17", "U+FF18", "U+FF19">>,
       <<"U+104A0", "U+104A1", "U+104A2", "U+104A3", "U+104A4", "U+104A5", "U+104A6", "U+104A7", "U+104A8", "U+104A9">>,
       <<"U+10D30", "U+10D31", "U+10D32", "U+10D33", "U+10D34", "U+10D35", "U+10D36", "U+10D37", "U+10D38", "U+10D39">>,
       <<"U+11066", "U+11067", "U+11068", "U+11069", "U+1106A", "U+1106B", "U+1106C", "U+1106D", "U+1106E", "U+1106F">>,
       <<"U+110F0", "U+110F1", "U+110F2", "U+110F3", "U+110F4", "U+110F5", "U+110F6", "U+110F7", "U+110F8", "U+110F9">>,
       <<"U+11136", "U+11137", "U+11138", "U+11139", "U+1113A", "U+1113B", "U+1113C", "U+1113D", "U+1113E", "U+1113F">>,
       <<"U+111D0", "U+111D1", "U+111D2", "U+111D3", "U+111D4", "U+111D5", "U+111D6", "U+111D7", "U+111D8", "U+111D9">>,
       <<"U+112F0", "U+112F1", "U+112F2", "U+112F3", "U+112F4", "U+112F5", "U+112F6", "U+112F7", "U+112F8", "U+112F9">>,
       <<"U+11450", "U+11451", "U+11452", "U+11453", "U+11454", "U+11455", "U+11456", "U+11457", "U+11458", "U+11459">>,
       <<"U+114D0", "U+114D1", "U+114D2", "U+114D3", "U+114D4", "U+114D5", "U+114D6", "U+114D7", "U+114D8", "U+114D9">>,
       <<"U+11650", "U+11651", "U+11652", "U+11653", "U+11654", "U+11655", "U+11656", "U+11657", "U+11658", "U+11659">>,
       <<"U+116C0", "U+116C1", "U+116C2", "U+116C3", "U+116C4", "U+116C5", "U+116C6", "U+116C7", "U+116C8", "U+116C9">>,
       <<"U+11730", "U+11731", "U+11732", "U+11733", "U+11734", "U+11735", "U+11736", "U+11737", "U+11738", "U+11739">>,
       <<"U+118E0", "U+118E1", "U+118E2", "U+118E3", "U+118E4", "U+118E5", "U+118E6", "U+118E7", "U+118E8", "U+118E9">>,
       <<"U+11950", "U+11951", "U+11952", "U+11953", "U+11954", "U+11955", "U+11956", "U+11957", "U+11958", "U+11959">>,
       <<"U+11C50", "U+11C51", "U+11C52", "U+11C53", "U+11C54", "U+11C55", "U+11C56", "U+11C57", "U+11C58", "U+11C59">>,
       <<"U+11D50", "U+11D51", "U+11D52", "U+11D53", "U+11D54", "U+11D55", "U+11D56", "U+11D57", "U+11D58", "U+11D59">>,
       <<"U+11DA0", "U+11DA1", "U+11DA2", "U+11DA3", "U+11DA4", "U+11DA5", "U+11DA6", "U+11DA7", "U+11DA8", "U+11DA9">>,
       <<"U+16A60", "U+16A61", "U+16A62", "U+16A63", "U+16A64", "U+16A65", "U+16A66", "U+16A67", "U+16A68", "U+16A69">>,
       <<"U+16AC0", "U+16AC1", "U+16AC2", "U+16AC3", "U+16AC4", "U+16AC5", "U+16AC6", "U+16AC7", "U+16AC8", "U+16AC9">>,
       <<"U+16B50", "U+16B51", "U+16B52", "U+16B53", "U+16B54", "U+16B55", "U+16B56", "U+16B57", "U+16B58", "U+16B59">>,
       <<"U+1D7CE", "U+1D7CF", "U+1D7D0", "U+1D7D1", "U+1D7D2", "U+1D7D3", "U+1D7D4", "U+1D7D5", "U+1D7D6", "U+1D7D7">>,
       <<"U+1D7D8", "U+1D7D9", "U+1D7DA", "U+1D7DB", "U+1D7DC", "U+1D7DD", "U+1D7DE", "U+1D7DF", "U+1D7E0", "U+1D7E1">>,
       <<"U+1D7E2", "U+1D7E3", "U+1D7E4", "U+1D7E5", "U+1D7E6", "U+1D7E7", "U+1D7E8", "U+1D7E9", "U+1D7EA", "U+1D7EB">>,
       <<"U+1D7EC", "U+1D7ED", "U+1D7EE", "U+1D7EF", "U+1D7F0", "U+1D7F1", "U+1D7F2", "U+1D7F3", "U+1D7F4", "U+1D7F5">>,
       <<"U+1D7F6", "U+1D7F7", "U+1D7F8", "U+1D7F9", "U+1D7FA", "U+1D7FB", "U+1D7FC", "U+1D7FD", "U+1D7FE", "U+1D7FF">>,
       <<"U+1E140", "U+1E141", "U+1E142", "U+1E143", "U+1E144", "U+1E145", "U+1E146", "U+1E147", "U+1E148", "U+1E149">>,
       <<"U+1E2F0", "U+1E2F1", "U+1E2F2", "U+1E2F3", "U+1E2F4", "U+1E2F5", "U+1E2F6", "U+1E2F7", "U+1E2F8", "U+1E2F9">>,
       <<"U+1E950", "U+1E951", "U+1E952", "U+1E953", "U+1E954", "U+1E955", "U+1E956", "U+1E957", "U+1E958", "U+1E959">>,
       <<"U+1FBF0", "U+1FBF1", "U+1FBF2", "U+1FBF3", "U+1FBF4", "U+1FBF5", "U+1FBF6", "U+1FBF7", "U+1FBF8", "U+1FBF9">>>>

IsDigit(c) ==
    \E r \in 1..Len(Digits) : \E k \in 1..Len(Digits[r]) : Digits[r][k] = c

DigitValue(c) ==
    (CHOOSE k \in 1..10 : \E r \in 1..Len(Digits) : Digits[r][k] = c) - 1

(* the characters int() skips before and after the number *)
Whitespace ==
    {"\t", "\n", "U+000B", "\f", "\r", " ",
     "U+0085", "U+00A0", "U+1680", "U+2000", "U+2001", "U+2002",
     "U+2003", "U+2004", "U+2005", "U+2006", "U+2007", "U+2008",
     "U+2009", "U+200A", "U+2028", "U+2029", "U+202F", "U+205F",
     "U+3000"}

(* the most digits int() converts (sys.int_info.default_max_str_digits); a   *)
(* longer number raises ValueError                                           *)
max_str_digits ==
    4300

RECURSIVE Strip(_)
(* what int() reads after skipping the whitespace around the number *)
Strip(s) ==
    IF s = <<>> THEN s
    ELSE IF Head(s) \in Whitespace THEN Strip(Tail(s))
    ELSE IF s[Len(s)] \in Whitespace THEN Strip(SubSeq(s, 1, Len(s) - 1))
    ELSE s

(* digits, with single underscores allowed between them *)
IsDigitString(b) ==
    /\ Len(b) >= 1
    /\ IsDigit(b[1])
    /\ IsDigit(b[Len(b)])
    /\ \A k \in 1..Len(b) : IsDigit(b[k]) \/ b[k] = "_"
    /\ \A k \in 1..(Len(b) - 1) : ~(b[k] = "_" /\ b[k + 1] = "_")

(* the number of digits of b, underscores not counted *)
DigitCount(b) ==
    Cardinality({k \in 1..Len(b) : b[k] # "_"})

RECURSIVE DigitsValue(_)
DigitsValue(b) ==
    IF b = <<>> THEN 0
    ELSE IF b[Len(b)] = "_" THEN DigitsValue(SubSeq(b, 1, Len(b) - 1))
    ELSE 10 * DigitsValue(SubSeq(b, 1, Len(b) - 1)) + DigitValue(b[Len(b)])

(* int(s) for a decimal string: surrounding whitespace and one sign allowed; *)
(* anything else, and a number of more than max_str_digits digits, raises    *)
(* ValueError                                                                *)
int(s) ==
    LET t == Strip(s)
        signed == t # <<>> /\ t[1] \in {"+", "-"}
        body == IF signed THEN Tail(t) ELSE t
    IN IF ~IsDigitString(body)
       THEN [exc |-> "ValueError", value |-> 0]
       ELSE IF DigitCount(body) > max_str_digits
       THEN [exc |-> "ValueError", value |-> 0]
       ELSE IF signed /\ t[1] = "-"
       THEN [exc |-> "none", value |-> 0 - DigitsValue(body)]
       ELSE [exc |-> "none", value |-> DigitsValue(body)]

(* lines 26-47, remove_age: in the dataset it is given, an age that reads as *)
(* an integer of 90 or more is replaced by the marker; any other age is      *)
(* written back as it was; an absent age or the string "None" returns early  *)
remove_age(d) ==
    IF PatientAge \notin DOMAIN d
    THEN d
    ELSE IF d[PatientAge] = NoneWord
    THEN d
    ELSE IF int(d[PatientAge]).exc = "none" /\ int(d[PatientAge]).value >= 90
    THEN [d EXCEPT ![PatientAge] = Over90]
    ELSE [d EXCEPT ![PatientAge] = d[PatientAge]]

(* the tag deleted from the dataset instead of blanked *)
remove_tag_Delete(d, tag, value) ==
    [t \in (DOMAIN d) \ {tag} |-> d[t]]

(* lines 12-23, remove_tag: a tag the dataset holds gets the value, a tag it *)
(* does not hold is left out                                                 *)
remove_tag(d, tag, value) ==
    IF tag \notin DOMAIN d
    THEN d
    ELSE [d EXCEPT ![tag] = value]

(* no copy at all: the local name stays bound to the caller's dataset *)
dataset_deepcopy_Alias(h, r) ==
    [ref |-> r, heap |-> h]

(* line 61, deepcopy(ds): a new dataset, equal in value, sharing nothing *)
dataset_deepcopy(h, r) ==
    [ref |-> Len(h) + 1, heap |-> Append(h, h[r])]

(* the value the k-th remove_tag call passes *)
RemovalValue(k) ==
    IF RemovedTags[k].with_case_id THEN case_id ELSE <<>>

DeidInit ==
    /\ datasets \in {<<d>> : d \in InputDatasets}
    /\ case_id \in CaseIds
    /\ ds = 0
    /\ removed = 0
    /\ dpc = "idle"
    /\ heap = <<>>
    /\ arg = 1
    /\ annotation = 0
    /\ sequences = <<>>
    /\ prev_seq_category_names = None
    /\ seq_category_names = <<>>
    /\ first_frame_ids = <<>>
    /\ seq_lengths = <<0, 0, 0, 0>>
    /\ idx = 0
    /\ pc = "idle"
    /\ error = "none"
    /\ lookups = <<>>
    /\ returned = <<>>
    /\ again = FALSE

(* lines 50-61: deidentify_dataset is entered and rebinds ds to a deep copy *)
DeidEnter ==
    /\ dpc = "idle"
    /\ datasets' = dataset_deepcopy(datasets, 1).heap
    /\ ds' = dataset_deepcopy(datasets, 1).ref
    /\ removed' = 0
    /\ dpc' = "removing"
    /\ UNCHANGED case_id
    /\ UNCHANGED fvars

(* lines 63-98: the next remove_tag call *)
DeidRemoveTag ==
    /\ dpc = "removing"
    /\ removed < Len(RemovedTags)
    /\ datasets' = [datasets EXCEPT ![ds] =
                       remove_tag(@, RemovedTags[removed + 1].tag, RemovalValue(removed + 1))]
    /\ removed' = removed + 1
    /\ UNCHANGED <<ds, case_id, dpc>>
    /\ UNCHANGED fvars

(* line 99: return ds *)
DeidReturn ==
    /\ dpc = "removing"
    /\ removed = Len(RemovedTags)
    /\ dpc' = "returned"
    /\ UNCHANGED <<datasets, ds, case_id, removed>>
    /\ UNCHANGED fvars

(* the caller calls remove_age on a dataset it holds (its own, or the one    *)
(* returned): the dataset is rewritten in place, no copy is made            *)
RemoveAge ==
    /\ dpc \in {"idle", "returned"}
    /\ \E r \in 1..Len(datasets) :
          datasets' = [datasets EXCEPT ![r] = remove_age(@)]
    /\ UNCHANGED <<ds, case_id, removed, dpc>>
    /\ UNCHANGED fvars

DeidNext ==
    \/ DeidEnter
    \/ DeidRemoveTag
    \/ DeidReturn
    \/ RemoveAge

DeidSpec ==
    DeidInit /\ [][DeidNext]_vars

(* ---------------------------------------------------------------------- *)
(* Properties                                                               *)
(* ---------------------------------------------------------------------- *)

(* the images of the dictionary the current call was given *)
Images ==
    heap[arg].images

(* the dictionary the current call returns *)
Out ==
    heap[annotation]

Terminal ==
    pc \in {"returned", "raised"}

(* every image has four tokens, each registered under its axis once normalized *)
AllRegistered(images) ==
    \A k \in 1..Len(images) :
        LET names == ParseSeqCategoryNames(images[k].file_name)
        IN /\ Len(names) = 4
           /\ \A i \in 1..4 : Registered(Supercategories[i], Normalize(names[i]))

(* some image has, on some axis, a token that is not registered once normalized *)
SomeUnregistered(images) ==
    \E k \in 1..Len(images) :
        LET names == ParseSeqCategoryNames(images[k].file_name)
        IN \E i \in 1..Len(names) :
              ~Registered(Supercategories[i], Normalize(names[i]))

(* the records of axis i, in output order *)
AxisRecords(seqs, i) ==
    SelectSeq(seqs, LAMBDA r :
        get_sequence_category(r.seq_category_id).supercategory = Supercategories[i])

RECURSIVE SumLengths(_)
SumLengths(rs) ==
    IF rs = <<>> THEN 0 ELSE Head(rs).seq_length + SumLengths(Tail(rs))

(* position of the image at which the j-th run of rs starts when the runs are *)
(* laid end to end from the first image                                      *)
StartOf(rs, j) ==
    1 + SumLengths(SubSeq(rs, 1, j - 1))

(* C1: for a non-empty image list whose tokens are all registered the call    *)
(* returns, and for each axis the records of that axis, in output order, are  *)
(* runs laid end to end over the image list: each starts at the image whose   *)
(* id is its first_frame_id, spans seq_length >= 1 images, and the last one   *)
(* ends at the last image.                                                    *)
C1_AxisPartition ==
    (Terminal /\ Len(Images) > 0 /\ AllRegistered(Images)) =>
        /\ pc = "returned"
        /\ \A i \in 1..4 :
              LET rs == AxisRecords(Out.sequences, i)
              IN /\ Len(rs) >= 1
                 /\ \A j \in 1..Len(rs) :
                       /\ rs[j].seq_length >= 1
                       /\ StartOf(rs, j) <= Len(Images)
                       /\ Images[StartOf(rs, j)].id = rs[j].first_frame_id
                 /\ StartOf(rs, Len(rs) + 1) = Len(Images) + 1

C1_Witness ==
    /\ pc = "returned"
    /\ Len(Images) = 3
    /\ AllRegistered(Images)
    /\ Len(AxisRecords(Out.sequences, 2)) = 2
    /\ AxisRecords(Out.sequences, 2)[2].first_frame_id = Images[3].id

(* C2: after a return on a non-empty image list, the seq_length of the records *)
(* of each axis sum to the number of images, and every seq_length is >= 1.     *)
C2_LengthsSum ==
    (pc = "returned" /\ Len(Images) > 0) =>
        /\ \A i \in 1..4 : SumLengths(AxisRecords(Out.sequences, i)) = Len(Images)
        /\ \A k \in 1..Len(Out.sequences) : Out.sequences[k].seq_length >= 1

C2_Witness ==
    /\ pc = "returned"
    /\ Len(Images) = 3
    /\ Len(AxisRecords(Out.sequences, 2)) = 3
    /\ Len(AxisRecords(Out.sequences, 1)) = 1

(* C3: no step of a call changes the dictionary the call was given, nor the   *)
(* caller's original one: images, image records and the stored sequences stay *)
(* as they were, whether the call returns or raises.                          *)
C3_CallerUntouched ==
    [][heap'[arg] = heap[arg] /\ heap'[1] = heap[1]]_vars

C3_Witness ==
    /\ pc = "returned"
    /\ arg = 1
    /\ heap[arg].sequences = <<StaleSequence>>
    /\ Out.sequences # heap[arg].sequences
    /\ Len(Images) >= 2

(* C4: when some image has a token that is not registered after               *)
(* normalization, the call never reaches its return: it raises a lookup error *)
(* (KeyError, or IndexError when a stem has fewer than four tokens), KeyError *)
(* when every stem has four tokens, and no dictionary is returned.            *)
LookupErrors ==
    {"KeyError", "IndexError"}

C4_AllOrNothing ==
    SomeUnregistered(Images) =>
        /\ pc \notin {"assign", "returned"}
        /\ (pc = "loop" /\ idx = Len(Images)) => FlushLoop(Locals).error \in LookupErrors
        /\ pc = "raised" =>
              /\ error \in LookupErrors
              /\ (\A k \in 1..Len(Images) :
                     Len(ParseSeqCategoryNames(Images[k].file_name)) = 4)
                 => error = "KeyError"
              /\ returned[Len(returned)].exc = error
              /\ returned[Len(returned)].output = <<>>

C4_Witness ==
    /\ pc = "raised"
    /\ error = "KeyError"
    /\ Len(Images) = 3
    /\ AllRegistered(SubSeq(Images, 1, 2))
    /\ Images[3].file_name = F_unknown
    /\ Len(sequences) > 0

(* a token with one leading "screw_" removed, and nothing else *)
StripPrefix(token) ==
    IF StartsWith(token, screw_) THEN SubSeq(token, Len(screw_) + 1, Len(token)) ELSE token

(* C5: every lookup is made with the closing token stripped of a leading      *)
(* "screw_" and of nothing else: a token that does not start with "screw_" is *)
(* looked up unchanged, even if "screw_" occurs later inside it.              *)
C5_PrefixOnly ==
    \A k \in 1..Len(lookups) : lookups[k].name = StripPrefix(lookups[k].token)

(* C6: the record at 0-based position k has id k, in the list being built and *)
(* in the list returned: the ids are unique and form the range 0..n-1.        *)
C6_IdsAreOrdinals ==
    /\ \A k \in 1..Len(sequences) : sequences[k].id = k - 1
    /\ pc = "returned" =>
          /\ \A k \in 1..Len(Out.sequences) : Out.sequences[k].id = k - 1
          /\ {Out.sequences[k].id : k \in 1..Len(Out.sequences)}
                = 0..(Len(Out.sequences) - 1)

C6_Witness ==
    /\ pc = "returned"
    /\ Len(Out.sequences) >= 7
    /\ \E i \in 1..4 : Len(AxisRecords(Out.sequences, i)) = 1
    /\ \E i \in 1..4 : Len(AxisRecords(Out.sequences, i)) = 3

(* the step that processes an image after the first one, without raising *)
ImageProcessed ==
    /\ pc = "loop"
    /\ pc' = "loop"
    /\ idx' = idx + 1
    /\ prev_seq_category_names # None

(* the final loop, without raising *)
Flushed ==
    /\ pc = "loop"
    /\ pc' = "assign"

(* the axes on which the image just parsed differs from the preceding image *)
ChangedAxes ==
    {i \in 1..4 : seq_category_names'[i] # prev_seq_category_names[i]}

(* the records a step has appended *)
Emitted ==
    SubSeq(sequences', Len(sequences) + 1, Len(sequences'))

(* C7, as stated: whenever any axis label of an image differs from that of the *)
(* preceding image, four records (one per axis) are closed at that image; the  *)
(* final flush closes the four open runs.                                      *)
C7_GroupOfFour ==
    [][/\ (ImageProcessed /\ ChangedAxes # {}) =>
             /\ Len(Emitted) = 4
             /\ \A i \in 1..4 : Len(AxisRecords(Emitted, i)) = 1
       /\ Flushed =>
             /\ Len(Emitted) = 4
             /\ \A i \in 1..4 : Len(AxisRecords(Emitted, i)) = 1]_vars

(* C7, amended: an image whose lookups succeed closes exactly one record for   *)
(* each axis whose label differs from the preceding image's and none for the   *)
(* other axes; the final flush closes the four open runs, one per axis.        *)
C7_ChangedAxesOnly ==
    [][/\ ImageProcessed =>
             /\ Len(Emitted) = Cardinality(ChangedAxes)
             /\ \A i \in 1..4 :
                   Len(AxisRecords(Emitted, i)) = (IF i \in ChangedAxes THEN 1 ELSE 0)
       /\ Flushed =>
             /\ Len(Emitted) = 4
             /\ \A i \in 1..4 : Len(AxisRecords(Emitted, i)) = 1]_vars

C7_Witness ==
    /\ pc = "loop"
    /\ idx = 2
    /\ Len(sequences) = 1
    /\ seq_category_names[2] # ParseSeqCategoryNames(Images[1].file_name)[2]
    /\ seq_category_names[1] = ParseSeqCategoryNames(Images[1].file_name)[1]

(* position of the last occurrence of the character sep in s, 0 if none *)
FindLast(s, sep) ==
    IF \E k \in 1..Len(s) : s[k] = sep
    THEN CHOOSE k \in 1..Len(s) : s[k] = sep /\ \A j \in (k + 1)..Len(s) : s[j] # sep
    ELSE 0

(* the file name with its extension removed *)
Stem(file_name) ==
    IF FindLast(file_name, ".") = 0
    THEN file_name
    ELSE SubSeq(file_name, 1, FindLast(file_name, ".") - 1)

(* C8: the labels parsed from an image are the last four '-'-separated tokens  *)
(* of the stem of its file name, for every file name whose stem has at least   *)
(* four such tokens, file names with more than one '.' included.               *)
C8_LastFourOfStem ==
    (pc \in {"loop", "assign", "returned", "raised"} /\ idx >= 1) =>
        LET tokens == Split(Stem(Images[idx].file_name), "-")
        IN Len(tokens) >= 4 => seq_category_names = LastFour(tokens)

(* C9: a call's outcome is a function of the images it is given: two calls on  *)
(* equal dictionaries end alike, two calls on equal image lists compute equal  *)
(* sequences whatever sequences were stored, and a call on the dictionary      *)
(* returned by an earlier call returns that dictionary again.                  *)
C9_Idempotent ==
    \A m, n \in 1..Len(returned) :
        /\ returned[m].input = returned[n].input =>
              /\ returned[m].exc = returned[n].exc
              /\ returned[m].output = returned[n].output
        /\ returned[m].input.images = returned[n].input.images =>
              /\ returned[m].exc = returned[n].exc
              /\ returned[m].exc = "none" =>
                    returned[m].output[1].sequences = returned[n].output[1].sequences
        /\ (returned[m].exc = "none" /\ returned[n].input = returned[m].output[1]) =>
              /\ returned[n].exc = "none"
              /\ returned[n].output = returned[m].output

C9_Witness ==
    /\ Len(returned) = 2
    /\ returned[1].exc = "none"
    /\ returned[2].input = returned[1].output[1]
    /\ returned[1].input # returned[2].input
    /\ Len(returned[2].output[1].sequences) > 4

(* C10: the dictionary returned equals the one given in every key but          *)
(* sequences, and its sequences are exactly the newly computed list.           *)
C10_OnlySequencesReplaced ==
    pc = "returned" =>
        /\ Out.images = heap[arg].images
        /\ Out.annotations = heap[arg].annotations
        /\ Out.categories = heap[arg].categories
        /\ Out.seq_categories = heap[arg].seq_categories
        /\ Out.info = heap[arg].info
        /\ Out.licenses = heap[arg].licenses
        /\ DOMAIN Out = DOMAIN heap[arg]
        /\ Out.sequences = sequences

C10_Witness ==
    /\ pc = "returned"
    /\ ~again
    /\ heap[arg].sequences = <<StaleSequence>>
    /\ Len(Out.sequences) >= 4
    /\ \A k \in 1..Len(Out.sequences) : Out.sequences[k] # StaleSequence

(* a record without its id, with its category given by name *)
RunOf(first_frame_id, seq_length, supercategory, name) ==
    [first_frame_id |-> first_frame_id,
     seq_length |-> seq_length,
     seq_category_id |-> SeqCategoryEntry(supercategory, name).id]

(* the records of axis i, in output order, without their ids *)
AxisRuns(seqs, i) ==
    [k \in 1..Len(AxisRecords(seqs, i)) |->
        [first_frame_id |-> AxisRecords(seqs, i)[k].first_frame_id,
         seq_length |-> AxisRecords(seqs, i)[k].seq_length,
         seq_category_id |-> AxisRecords(seqs, i)[k].seq_category_id]]

(* the images of the example: ids 1, 2, 3, the activity changing at the third *)
IsExample(images) ==
    /\ Len(images) = 3
    /\ \A k \in 1..3 : images[k].id = k
    /\ ParseSeqCategoryNames(images[1].file_name) = <<s1, position_wire, ap, fluoro_hunting>>
    /\ ParseSeqCategoryNames(images[2].file_name) = <<s1, position_wire, ap, fluoro_hunting>>
    /\ ParseSeqCategoryNames(images[3].file_name) = <<s1, insert_wire, ap, fluoro_hunting>>

(* C11: on the three-image example the call returns; the activity axis gets    *)
(* exactly the records (first_frame_id 1, seq_length 2, position_wire) and     *)
(* then (first_frame_id 3, seq_length 1, insert_wire); every other axis gets   *)
(* exactly one record, with first_frame_id 1 and seq_length 3.                 *)
C11_Example ==
    (Terminal /\ IsExample(Images)) =>
        /\ pc = "returned"
        /\ AxisRuns(Out.sequences, 2) = <<RunOf(1, 2, "activity", position_wire),
                                          RunOf(3, 1, "activity", insert_wire)>>
        /\ AxisRuns(Out.sequences, 1) = <<RunOf(1, 3, "task", s1)>>
        /\ AxisRuns(Out.sequences, 3) = <<RunOf(1, 3, "acquisition", ap)>>
        /\ AxisRuns(Out.sequences, 4) = <<RunOf(1, 3, "frame", fluoro_hunting)>>
        /\ Len(Out.sequences) = 5

C11_Witness ==
    /\ pc = "returned"
    /\ IsExample(Images)
    /\ Out.sequences[1].seq_category_id = 8
    /\ Out.sequences[3].seq_category_id = 9

(* C12: for a list of exactly one image with registered tokens the call        *)
(* returns exactly four records, one per axis, each with seq_length 1 and      *)
(* first_frame_id equal to the id of that image.                               *)
C12_SingleImage ==
    (Terminal /\ Len(Images) = 1 /\ AllRegistered(Images)) =>
        /\ pc = "returned"
        /\ Len(Out.sequences) = 4
        /\ \A i \in 1..4 : Len(AxisRecords(Out.sequences, i)) = 1
        /\ \A k \in 1..Len(Out.sequences) :
              /\ Out.sequences[k].seq_length = 1
              /\ Out.sequences[k].first_frame_id = Images[1].id

C12_Witness ==
    /\ pc = "returned"
    /\ Len(Images) = 1
    /\ AllRegistered(Images)
    /\ Images[1].id = ImageId("descending", 1)
    /\ Out.sequences[4].first_frame_id = ImageId("descending", 1)

(* the raw token of image k on axis i *)
RawToken(images, k, i) ==
    ParseSeqCategoryNames(images[k].file_name)[i]

(* the positions at which a run of axis i starts: the first image, and every   *)
(* image whose raw token on axis i differs from the preceding image's          *)
RunStarts(images, i) ==
    {1} \cup {k \in 2..Len(images) : RawToken(images, k, i) # RawToken(images, k - 1, i)}

(* C13: each record is one maximal run of constant raw token: on each axis the *)
(* runs start at the first image and exactly at the images whose raw token on  *)
(* that axis differs from the preceding image's, so the axis has 1 + (number   *)
(* of differing adjacent pairs) records, each spanning up to the next start; a *)
(* change on another axis, or equality after normalization, plays no part.     *)
C13_MaximalRuns ==
    (pc = "returned" /\ Len(Images) > 0) =>
        \A i \in 1..4 :
            LET rs == AxisRecords(Out.sequences, i)
                starts == RunStarts(Images, i)
            IN /\ Len(rs) = Cardinality(starts)
               /\ {StartOf(rs, j) : j \in 1..Len(rs)} = starts
               /\ StartOf(rs, Len(rs) + 1) = Len(Images) + 1
               /\ \A j \in 1..Len(rs) :
                     /\ rs[j].first_frame_id = Images[StartOf(rs, j)].id
                     /\ get_sequence_category(rs[j].seq_category_id).name
                           = Normalize(RawToken(Images, StartOf(rs, j), i))
                     /\ \A k \in (StartOf(rs, j) + 1)..(StartOf(rs, j + 1) - 1) :
                           k \notin starts

C13_Witness ==
    /\ pc = "returned"
    /\ Len(Images) = 3
    /\ Images[1].file_name = F_screw
    /\ Images[2].file_name = F_noprefix
    /\ Images[3].file_name = F_noprefix
    /\ Len(AxisRecords(Out.sequences, 2)) = 2
    /\ AxisRecords(Out.sequences, 2)[1].seq_category_id
          = AxisRecords(Out.sequences, 2)[2].seq_category_id
    /\ Len(AxisRecords(Out.sequences, 1)) = 1

(* the index (1..4) of the axis a record belongs to *)
AxisIndex(r) ==
    CHOOSE i \in 1..4 :
        get_sequence_category(r.seq_category_id).supercategory = Supercategories[i]

(* the position of the image at which the run of the k-th record was closed:   *)
(* the image after the last one of the run (the final loop closes the runs     *)
(* that hold the last image, one position past the end of the list)            *)
ClosedAt(seqs, k) ==
    1 + SumLengths(AxisRecords(SubSeq(seqs, 1, k), AxisIndex(seqs[k])))

(* C14: the records appear in the order in which their runs close; records     *)
(* closed at the same image appear in the axis order task, activity,           *)
(* acquisition, frame; and the last four records are the final flush, one per  *)
(* axis in that order, each the run that holds the last image.                 *)
C14_EmissionOrder ==
    (pc = "returned" /\ Len(Images) > 0) =>
        LET seqs == Out.sequences
        IN /\ Len(seqs) >= 4
           /\ \A k \in 1..(Len(seqs) - 1) :
                 \/ ClosedAt(seqs, k) < ClosedAt(seqs, k + 1)
                 \/ /\ ClosedAt(seqs, k) = ClosedAt(seqs, k + 1)
                    /\ AxisIndex(seqs[k]) < AxisIndex(seqs[k + 1])
           /\ \A i \in 1..4 :
                 /\ AxisIndex(seqs[Len(seqs) - 4 + i]) = i
                 /\ ClosedAt(seqs, Len(seqs) - 4 + i) = Len(Images) + 1
           /\ \A k \in 1..(Len(seqs) - 4) : ClosedAt(seqs, k) <= Len(Images)

C14_Witness ==
    /\ pc = "returned"
    /\ Len(Images) = 3
    /\ Len(Out.sequences) = 11
    /\ AxisIndex(Out.sequences[1]) = 1
    /\ AxisIndex(Out.sequences[2]) = 3
    /\ AxisIndex(Out.sequences[3]) = 4
    /\ ClosedAt(Out.sequences, 3) = 2
    /\ ClosedAt(Out.sequences, 4) = 3

(* the (supercategory, name) pairs of the registry *)
RegisteredPairs ==
    {<<seq_categories[k].supercategory, seq_categories[k].name>> :
        k \in 1..Len(seq_categories)}

(* the registry gives every pair one id and no id twice, a name shared by      *)
(* task and acquisition a different id on each, and the entry of the id of a   *)
(* pair is that pair                                                           *)
RegistryRoundTrips ==
    /\ Cardinality(RegisteredPairs) = Len(seq_categories)
    /\ Cardinality({seq_categories[k].id : k \in 1..Len(seq_categories)})
          = Len(seq_categories)
    /\ \A p \in RegisteredPairs :
          /\ get_sequence_catid(p[1], p[2]).exc = "none"
          /\ get_sequence_category(get_sequence_catid(p[1], p[2]).value).supercategory = p[1]
          /\ get_sequence_category(get_sequence_catid(p[1], p[2]).value).name = p[2]
    /\ \A n \in {teardrop_left, teardrop_right} :
          get_sequence_catid("task", n).value # get_sequence_catid("acquisition", n).value

(* C15: the k-th record carries the id whose registry entry has the            *)
(* supercategory of the axis whose run it closes and the name of that run's    *)
(* normalized token; the registry gives every pair one id, no id twice, a name *)
(* shared by task and acquisition a different id on each, and                  *)
(* get_sequence_category(get_sequence_catid(s, n)) is the entry (s, n).        *)
C15_CategoryOfAxis ==
    /\ \A k \in 1..Len(sequences) :
          /\ lookups[k].name = Normalize(lookups[k].token)
          /\ get_sequence_category(sequences[k].seq_category_id).supercategory
                = lookups[k].supercategory
          /\ get_sequence_category(sequences[k].seq_category_id).name
                = lookups[k].name
    /\ pc = "returned" => Len(lookups) = Len(Out.sequences)
    /\ RegistryRoundTrips

C15_Witness ==
    /\ pc = "returned"
    /\ Len(Images) = 1
    /\ Images[1].file_name = F_teardrop
    /\ Out.sequences[1].seq_category_id = 6
    /\ Out.sequences[3].seq_category_id = 17
    /\ lookups[1].name = lookups[3].name

(* C16: for an empty images list the call never returns a dictionary: the     *)
(* final loop runs with no run ever opened, the call ends with an error and    *)
(* no sequence record is emitted.                                              *)
C16_EmptyFails ==
    Len(Images) = 0 =>
        /\ pc \notin {"assign", "returned"}
        /\ sequences = <<>>
        /\ lookups = <<>>
        /\ pc = "loop" =>
              /\ prev_seq_category_names = None
              /\ FlushLoop(Locals).error # "none"
        /\ pc = "raised" =>
              /\ error = "TypeError"
              /\ returned[Len(returned)].exc = "TypeError"
              /\ returned[Len(returned)].output = <<>>

C16_Witness ==
    /\ pc = "raised"
    /\ Len(Images) = 0
    /\ error = "TypeError"
    /\ idx = 0
    /\ Len(returned) = 1

(* the tags named by the remove_tag calls *)
ListedTags ==
    {RemovedTags[k].tag : k \in 1..Len(RemovedTags)}

(* C17: deidentify_dataset returns a dataset with the same tags as its input,  *)
(* in which every listed tag the input holds is empty, except Patient's Name   *)
(* and Patient ID, which hold case_id; a listed tag the input lacks stays      *)
(* absent, every other tag keeps its value, and no step of the call changes    *)
(* the input dataset.                                                          *)
C17_Deidentified ==
    /\ [](dpc = "returned" =>
            /\ DOMAIN datasets[ds] = DOMAIN datasets[1]
            /\ \A t \in DOMAIN datasets[1] :
                  datasets[ds][t] =
                      IF t \in {PatientName, PatientID} THEN case_id
                      ELSE IF t \in ListedTags THEN <<>>
                      ELSE datasets[1][t]
            /\ \A t \in ListedTags \ DOMAIN datasets[1] : t \notin DOMAIN datasets[ds])
    /\ [][(dpc = "removing" \/ dpc' = "removing") => datasets'[1] = datasets[1]]_vars

C17_Witness ==
    /\ dpc = "returned"
    /\ case_id = <<"0", "0", "0", "0", "4", "2">>
    /\ DOMAIN datasets[1] = (InputTags \cup {PatientAge}) \ {PatientBirthDate}
    /\ datasets[ds][PatientName] = case_id
    /\ datasets[ds][ImageComments] = <<>>
    /\ datasets[ds][PatientAge] = <<>>
    /\ datasets[1][PatientName] = OriginalValue(PatientName)
    /\ datasets[1][PatientAge] = <<"9", "3">>

==========================================================================
